---- MODULE Spec2Model ----
(***************************************************************************)
(* Expense tracker: the domain model, TransactionService over the          *)
(* SQLAlchemy transaction repository, the HTTP routes in front of the      *)
(* service, and the engine/sessionmaker singletons of db.py.               *)
(*                                                                         *)
(* Amounts are Decimal values, written here as integers counting           *)
(* thousandths (1000 is Decimal("1"), 4 is Decimal("0.004")).              *)
(* A datetime is [t |-> wall clock, tzinfo |-> "UTC" or None].             *)
(* A dict is the sequence of its items [key, value] in insertion order.    *)
(***************************************************************************)
EXTENDS Integers, Sequences, FiniteSets, TLC

VARIABLES
    store,      \* rows of table "transactions", in insertion order
    now,        \* last reading of datetime.now(tz=UTC)
    uuids,      \* number of uuid4() values drawn so far
    op,         \* the service method called last
    args,       \* its arguments
    result,     \* what it returned or raised
    repoCalls,  \* the repository methods it invoked, in order
    ties,       \* how the database orders rows of equal ORDER BY key
    response,   \* the HTTP response of the route called last
    engine,     \* db._engine: <<>> for None, else <<the engine>>
    session_factory,  \* db._session_factory: <<>> for None, else <<the sessionmaker>>
    created,    \* number of engines create_engine has made so far
    disposed,   \* the engines dispose() has been called on
    dbLog       \* the calls made on db.py and how each ended, in order

dbVars == <<engine, session_factory, created, disposed, dbLog>>

vars == <<store, now, uuids, op, args, result, repoCalls, ties, response, dbVars>>

-----------------------------------------------------------------------------
(* Bounds of the model *)

MaxStore == 2

MaxScenario == 3

\* Transactions made by Transaction.create called on its own.
MaxCreate == 2

\* Calls made on db.py.
MaxDbCalls == 4

-----------------------------------------------------------------------------
(* Values *)

None == "<None>"

UTC == "UTC"

\* Thousandths per unit of the last digit the amount column keeps.
Cent == 10

DomainValidationError == "DomainValidationError"

NotFoundError == "NotFoundError"

Ok == "ok"

TransactionType == {"expense", "income"}

DateTime(t, tzinfo) == [t |-> t, tzinfo |-> tzinfo]

-----------------------------------------------------------------------------
(* Outcomes of a call: a return value or a raised exception *)

Raise(status, message) ==
    [status |-> status, message |-> message, tx |-> <<>>, transactions |-> <<>>,
     total_expense |-> 0, expense_by_category |-> <<>>]

ReturnTx(tx) ==
    [status |-> Ok, message |-> None, tx |-> <<tx>>, transactions |-> <<>>,
     total_expense |-> 0, expense_by_category |-> <<>>]

ReturnList(transactions) ==
    [status |-> Ok, message |-> None, tx |-> <<>>, transactions |-> transactions,
     total_expense |-> 0, expense_by_category |-> <<>>]

ReturnStats(transactions, total_expense, expense_by_category) ==
    [status |-> Ok, message |-> None, tx |-> <<>>, transactions |-> transactions,
     total_expense |-> total_expense, expense_by_category |-> expense_by_category]

ReturnNone == ReturnList(<<>>)

\* A constructor's return value.
ReturnValue(value) == [status |-> Ok, message |-> None, value |-> value]

-----------------------------------------------------------------------------
(* Domain model *)

\* A Money that checks its amount only.
MoneyErrorAmountOnly(amount, currency) ==
    IF amount <= 0 THEN "Amount must be greater than 0" ELSE None

\* Money.__post_init__: the message of the error it raises, or None.
MoneyError(amount, currency) ==
    IF amount <= 0 THEN "Amount must be greater than 0"
    ELSE IF currency = "" \/ Len(currency) # 3
         THEN "Currency must be a 3-letter code (e.g. RUB)"
         ELSE None

Money(amount, currency) == [amount |-> amount, currency |-> currency]

\* A create that checks user_id only.
CreateErrorUserOnly(user_id, occurred_at) ==
    IF user_id = "" THEN "user_id is required" ELSE None

\* Transaction.create: the message of the error it raises, or None.
CreateError(user_id, occurred_at) ==
    IF user_id = "" THEN "user_id is required"
    ELSE IF occurred_at.tzinfo = None
         THEN "occurred_at must be timezone-aware (e.g. UTC)"
         ELSE None

\* An id generator that gives every transaction the same id.
Uuid4Repeated(n) == 1

\* uuid4(): the n-th value drawn; distinct draws give distinct values.
Uuid4(n) == n

\* str(uuid): never the empty string, different for different uuids.
Str(uuid) == "uuid-" \o ToString(uuid)

Transaction(id, user_id, type, money, occurred_at, created_at, category_id, account_id, description) ==
    [id |-> id, user_id |-> user_id, type |-> type, money |-> money,
     occurred_at |-> occurred_at, created_at |-> created_at,
     category_id |-> category_id, account_id |-> account_id,
     description |-> description]

\* Transaction.create past its two checks: uuid is the value uuid4() draws,
\* clock what datetime.now(tz=UTC) reads.
TransactionCreate(user_id, type, money, occurred_at, category_id, account_id, description, uuid, clock) ==
    Transaction(Str(uuid), user_id, type, money, occurred_at, DateTime(clock, UTC),
                category_id, account_id, description)

\* Money(amount=amount, currency=currency), called on its own.
CallMoney(amount, currency) ==
    /\ op' = "Money"
    /\ args' = [amount |-> amount, currency |-> currency]
    /\ result' = IF MoneyError(amount, currency) # None
                 THEN Raise(DomainValidationError, MoneyError(amount, currency))
                 ELSE ReturnValue(Money(amount, currency))
    /\ repoCalls' = <<>>
    /\ UNCHANGED <<store, now, uuids>>

\* Transaction.create(...), called on its own.
CallTransactionCreate(user_id, type, money, occurred_at, category_id, account_id, description, clock) ==
    /\ op' = "Transaction.create"
    /\ args' = [user_id |-> user_id, type |-> type, money |-> money,
                occurred_at |-> occurred_at, category_id |-> category_id,
                account_id |-> account_id, description |-> description]
    /\ repoCalls' = <<>>
    /\ IF CreateError(user_id, occurred_at) # None
       THEN /\ result' = Raise(DomainValidationError, CreateError(user_id, occurred_at))
            /\ UNCHANGED <<store, now, uuids>>
       ELSE /\ result' = ReturnValue(TransactionCreate(user_id, type, money, occurred_at,
                                                       category_id, account_id, description,
                                                       Uuid4(uuids + 1), clock))
            /\ now' = clock
            /\ uuids' = uuids + 1
            /\ UNCHANGED store

-----------------------------------------------------------------------------
(* SQLAlchemy repository *)

\* Domain -> DB conversion of add.
TransactionORM(tx) ==
    [id |-> tx.id, user_id |-> tx.user_id, type |-> tx.type,
     amount |-> tx.money.amount, currency |-> tx.money.currency,
     occurred_at |-> tx.occurred_at, created_at |-> tx.created_at,
     category_id |-> tx.category_id, account_id |-> tx.account_id,
     description |-> tx.description]

\* The value a Numeric(12, 2) column gives back for a stored amount: two
\* decimal places, the nearest one (the inputs of this model are never
\* halfway between two).
NumericColumn(amount) == ((amount + (Cent \div 2)) \div Cent) * Cent

\* A _to_domain that builds the transaction without the checks of Money.
ToDomainErrorNever(row) == None

\* _to_domain raises what Money raises for the row's amount and currency.
ToDomainError(row) == MoneyError(NumericColumn(row.amount), row.currency)

\* DB -> Domain conversion.
ToDomain(row) ==
    Transaction(row.id, row.user_id, row.type,
                Money(NumericColumn(row.amount), row.currency),
                row.occurred_at, row.created_at,
                row.category_id, row.account_id, row.description)

\* session.add(row); session.commit()
RepoAdd(rows, tx) == Append(rows, TransactionORM(tx))

DataError == "DataError"

\* Whether commit keeps the row (TRUE) or raises (FALSE). The description
\* column is String(500): a longer value is kept by a database that does not
\* enforce the length of a VARCHAR (SQLite, the default of init_db) and refused
\* by one that does (PostgreSQL).
CommitKeeps(tx) ==
    IF tx.description # None /\ Len(tx.description) > 500 THEN {TRUE, FALSE} ELSE {TRUE}

\* get: None when no row has the primary key, else _to_domain(row).
RepoGet(rows, transaction_id) ==
    LET hit == {i \in DOMAIN rows : rows[i].id = transaction_id}
    IN  IF hit = {} THEN ReturnNone
        ELSE LET row == rows[CHOOSE i \in hit : TRUE]
             IN  IF ToDomainError(row) # None
                 THEN Raise(DomainValidationError, ToDomainError(row))
                 ELSE ReturnTx(ToDomain(row))

\* A query without its ORDER BY: the rows as they were inserted.
OrderByNothing(selected, key) ==
    {p \in [1..Cardinality(selected) -> selected] :
        \A i \in DOMAIN p : i + 1 \in DOMAIN p => p[i] < p[i + 1]}

\* A database that orders rows of equal key anew in every query.
OrderByDescAnyTies(selected, key) ==
    {p \in [1..Cardinality(selected) -> selected] :
        /\ \A i, j \in DOMAIN p : i # j => p[i] # p[j]
        /\ \A i \in DOMAIN p : i + 1 \in DOMAIN p => key[p[i]] >= key[p[i + 1]]}

\* ORDER BY key DESC over the selected rows, key[i] being the key of row i:
\* the order in which the key never increases. The statement names no second
\* key, so rows of equal key come as the database scans them: all in
\* insertion order, or all in the reverse, the same way in every query on
\* this database.
OrderByDesc(selected, key) ==
    {p \in [1..Cardinality(selected) -> selected] :
        /\ \A i, j \in DOMAIN p : i # j => p[i] # p[j]
        /\ \A i \in DOMAIN p : i + 1 \in DOMAIN p =>
               \/ key[p[i]] > key[p[i + 1]]
               \/ /\ key[p[i]] = key[p[i + 1]]
                  /\ IF ties = "insertion" THEN p[i] < p[i + 1] ELSE p[i] > p[i + 1]}

\* [self._to_domain(row) for row in rows], for the rows in the order p.
ToDomainAll(rows, p) ==
    IF \E i \in DOMAIN p : ToDomainError(rows[p[i]]) # None
    THEN Raise(DomainValidationError,
               ToDomainError(rows[p[CHOOSE i \in DOMAIN p :
                                        /\ ToDomainError(rows[p[i]]) # None
                                        /\ \A j \in 1..(i - 1) : ToDomainError(rows[p[j]]) = None]]))
    ELSE ReturnList([i \in DOMAIN p |-> ToDomain(rows[p[i]])])

\* list_by_user without WHERE user_id = :user_id.
RepoListByAnyUser(rows, user_id) ==
    {ToDomainAll(rows, p) :
        p \in OrderByDesc(DOMAIN rows, [i \in DOMAIN rows |-> rows[i].created_at.t])}

\* list_by_user: the outcomes the query can have.
RepoListByUser(rows, user_id) ==
    LET selected == {i \in DOMAIN rows : rows[i].user_id = user_id}
    IN  {ToDomainAll(rows, p) :
            p \in OrderByDesc(selected, [i \in selected |-> rows[i].created_at.t])}

\* A query that forgets WHERE user_id = :user_id.
RepoListByAnyUserAndCategories(rows, user_id, category_ids) ==
    IF category_ids = <<>> THEN {ReturnList(<<>>)}
    ELSE LET selected == {i \in DOMAIN rows :
                            /\ rows[i].category_id # None
                            /\ \E k \in DOMAIN category_ids :
                                   category_ids[k] = rows[i].category_id}
         IN  {ToDomainAll(rows, p) :
                 p \in OrderByDesc(selected, [i \in selected |-> rows[i].created_at.t])}

\* A store that returns the rows without category along with the requested.
RepoListByUserAndCategoriesOrNull(rows, user_id, category_ids) ==
    IF category_ids = <<>> THEN {ReturnList(<<>>)}
    ELSE LET selected == {i \in DOMAIN rows :
                            /\ rows[i].user_id = user_id
                            /\ \/ rows[i].category_id = None
                               \/ \E k \in DOMAIN category_ids :
                                      category_ids[k] = rows[i].category_id}
         IN  {ToDomainAll(rows, p) :
                 p \in OrderByDesc(selected, [i \in selected |-> rows[i].created_at.t])}

\* list_by_user_and_categories: a NULL category_id is IN no list.
RepoListByUserAndCategories(rows, user_id, category_ids) ==
    IF category_ids = <<>> THEN {ReturnList(<<>>)}
    ELSE LET selected == {i \in DOMAIN rows :
                            /\ rows[i].user_id = user_id
                            /\ rows[i].category_id # None
                            /\ \E k \in DOMAIN category_ids :
                                   category_ids[k] = rows[i].category_id}
         IN  {ToDomainAll(rows, p) :
                 p \in OrderByDesc(selected, [i \in selected |-> rows[i].created_at.t])}

\* A query with occurred_at < :end_at in place of <=.
RepoListByUserBeforeEnd(rows, user_id, start_at, end_at) ==
    LET selected == {i \in DOMAIN rows :
                        /\ rows[i].user_id = user_id
                        /\ rows[i].occurred_at.t >= start_at.t
                        /\ rows[i].occurred_at.t < end_at.t}
    IN  {ToDomainAll(rows, p) :
            p \in OrderByDesc(selected, [i \in selected |-> rows[i].occurred_at.t])}

\* list_by_user_and_period: both bounds inclusive.
RepoListByUserAndPeriod(rows, user_id, start_at, end_at) ==
    LET selected == {i \in DOMAIN rows :
                        /\ rows[i].user_id = user_id
                        /\ rows[i].occurred_at.t >= start_at.t
                        /\ rows[i].occurred_at.t <= end_at.t}
    IN  {ToDomainAll(rows, p) :
            p \in OrderByDesc(selected, [i \in selected |-> rows[i].occurred_at.t])}

-----------------------------------------------------------------------------
(* dict *)

DictHas(d, key) == \E i \in DOMAIN d : d[i].key = key

\* d.get(key, default)
DictGet(d, key, default) ==
    IF DictHas(d, key) THEN d[CHOOSE i \in DOMAIN d : d[i].key = key].value
    ELSE default

\* d[key] = value: an existing key keeps its place, a new key goes last.
DictSet(d, key, value) ==
    IF DictHas(d, key)
    THEN [i \in DOMAIN d |-> IF d[i].key = key THEN [key |-> key, value |-> value] ELSE d[i]]
    ELSE Append(d, [key |-> key, value |-> value])

RECURSIVE DictFromKeys(_, _)
\* dict.fromkeys(keys) continued from d: first occurrences, in order.
DictFromKeys(d, keys) ==
    IF keys = <<>> THEN d
    ELSE DictFromKeys(IF DictHas(d, Head(keys)) THEN d ELSE DictSet(d, Head(keys), None),
                      Tail(keys))

\* list(category_ids): no deduplication.
AllCategoryIds(category_ids) == category_ids

\* list(dict.fromkeys(category_ids))
UniqueCategoryIds(category_ids) ==
    LET d == DictFromKeys(<<>>, category_ids)
    IN  [i \in DOMAIN d |-> d[i].key]

-----------------------------------------------------------------------------
(* TransactionService *)

\* _normalize_datetime leaving every value as it is.
NormalizeDatetimeNot(value) == value

\* _normalize_datetime
NormalizeDatetime(value) ==
    IF value.tzinfo = None THEN DateTime(value.t, UTC) ELSE value

\* The loop body without the test of tx.type.
ByCategoriesStepAnyType(acc, tx) ==
    [total_expense |-> acc.total_expense + tx.money.amount,
     expense_by_category |->
         IF tx.category_id # None
         THEN DictSet(acc.expense_by_category, tx.category_id,
                      DictGet(acc.expense_by_category, tx.category_id, 0)
                          + tx.money.amount)
         ELSE acc.expense_by_category]

\* One round of the loop of get_transactions_by_categories over tx.
ByCategoriesStep(acc, tx) ==
    IF tx.type = "expense"
    THEN [total_expense |-> acc.total_expense + tx.money.amount,
          expense_by_category |->
              IF tx.category_id # None
              THEN DictSet(acc.expense_by_category, tx.category_id,
                           DictGet(acc.expense_by_category, tx.category_id, 0)
                               + tx.money.amount)
              ELSE acc.expense_by_category]
    ELSE acc

\* The loop body without the test of tx.type.
ForPeriodStepAnyType(acc, tx) ==
    [total_expense |-> acc.total_expense + tx.money.amount,
     expense_by_category |->
         DictSet(acc.expense_by_category, tx.category_id,
                 DictGet(acc.expense_by_category, tx.category_id, 0)
                     + tx.money.amount)]

\* One round of the loop of get_transactions_for_period over tx.
ForPeriodStep(acc, tx) ==
    IF tx.type = "expense"
    THEN [total_expense |-> acc.total_expense + tx.money.amount,
          expense_by_category |->
              DictSet(acc.expense_by_category, tx.category_id,
                      DictGet(acc.expense_by_category, tx.category_id, 0)
                          + tx.money.amount)]
    ELSE acc

RECURSIVE ByCategoriesLoop(_, _)
\* for tx in transactions, in get_transactions_by_categories
ByCategoriesLoop(acc, transactions) ==
    IF transactions = <<>> THEN acc
    ELSE ByCategoriesLoop(ByCategoriesStep(acc, Head(transactions)), Tail(transactions))

RECURSIVE ForPeriodLoop(_, _)
\* for tx in transactions, in get_transactions_for_period
ForPeriodLoop(acc, transactions) ==
    IF transactions = <<>> THEN acc
    ELSE ForPeriodLoop(ForPeriodStep(acc, Head(transactions)), Tail(transactions))

\* The outcomes of record_transaction apart from id and created_at: the
\* message of the validation error it raises, or None.
RecordError(user_id, tx_type, amount, currency, occurred_at) ==
    IF tx_type \notin TransactionType
    THEN "Unsupported transaction type: " \o tx_type
    ELSE IF MoneyError(amount, currency) # None
         THEN MoneyError(amount, currency)
         ELSE CreateError(user_id, NormalizeDatetime(occurred_at))

\* record_transaction with the row added before Transaction.create has
\* checked user_id.
RecordTransactionAddFirst(user_id, tx_type, amount, currency, occurred_at, category_id, account_id, description, clock) ==
    LET tx == TransactionCreate(user_id, tx_type, Money(amount, currency),
                                NormalizeDatetime(occurred_at),
                                category_id, account_id, description,
                                Uuid4(uuids + 1), clock)
        early == IF tx_type \notin TransactionType
                 THEN "Unsupported transaction type: " \o tx_type
                 ELSE MoneyError(amount, currency)
        late == CreateError(user_id, NormalizeDatetime(occurred_at))
    IN  /\ op' = "record_transaction"
        /\ args' = [user_id |-> user_id, tx_type |-> tx_type, amount |-> amount,
                    currency |-> currency, occurred_at |-> occurred_at,
                    category_id |-> category_id, account_id |-> account_id,
                    description |-> description]
        /\ IF early # None
           THEN /\ result' = Raise(DomainValidationError, early)
                /\ repoCalls' = <<>>
                /\ UNCHANGED <<store, now, uuids>>
           ELSE /\ store' = RepoAdd(store, tx)
                /\ result' = IF late # None THEN Raise(DomainValidationError, late)
                              ELSE ReturnTx(tx)
                /\ now' = clock
                /\ uuids' = uuids + 1
                /\ repoCalls' = <<"add">>

\* clock is what datetime.now(tz=UTC) reads inside Transaction.create.
RecordTransaction(user_id, tx_type, amount, currency, occurred_at, category_id, account_id, description, clock) ==
    LET error == RecordError(user_id, tx_type, amount, currency, occurred_at)
    IN  /\ op' = "record_transaction"
        /\ args' = [user_id |-> user_id, tx_type |-> tx_type, amount |-> amount,
                    currency |-> currency, occurred_at |-> occurred_at,
                    category_id |-> category_id, account_id |-> account_id,
                    description |-> description]
        /\ IF error # None
           THEN /\ result' = Raise(DomainValidationError, error)
                /\ repoCalls' = <<>>
                /\ UNCHANGED <<store, now, uuids>>
           ELSE /\ LET tx == TransactionCreate(user_id, tx_type,
                                               Money(amount, currency),
                                               NormalizeDatetime(occurred_at),
                                               category_id, account_id, description,
                                               Uuid4(uuids + 1), clock)
                   IN  \E kept \in CommitKeeps(tx) :
                           IF kept
                           THEN /\ store' = RepoAdd(store, tx)
                                /\ result' = ReturnTx(tx)
                           ELSE /\ store' = store
                                /\ result' = Raise(DataError, "value too long")
                /\ now' = clock
                /\ uuids' = uuids + 1
                /\ repoCalls' = <<"add">>

GetTransaction(user_id, transaction_id) ==
    LET got == RepoGet(store, transaction_id)
    IN  /\ op' = "get_transaction"
        /\ args' = [user_id |-> user_id, transaction_id |-> transaction_id]
        /\ repoCalls' = <<"get">>
        /\ result' = IF got.status # Ok THEN got
                     ELSE IF got.tx = <<>> \/ got.tx[1].user_id # user_id
                          THEN Raise(NotFoundError, "Transaction not found")
                          ELSE got
        /\ UNCHANGED <<store, now, uuids>>

ListTransactions(user_id) ==
    /\ op' = "list_transactions"
    /\ args' = [user_id |-> user_id]
    /\ repoCalls' = <<"list_by_user">>
    /\ result' \in RepoListByUser(store, user_id)
    /\ UNCHANGED <<store, now, uuids>>

\* get_transactions_by_categories once unique_category_ids is known: the
\* repository call and the totals.
ByCategoriesQuery(user_id, unique_category_ids) ==
    /\ repoCalls' = <<"list_by_user_and_categories">>
    /\ \E got \in RepoListByUserAndCategories(store, user_id, unique_category_ids) :
          result' =
              IF got.status # Ok THEN got
              ELSE LET seeded == [i \in DOMAIN unique_category_ids |->
                                     [key |-> unique_category_ids[i], value |-> 0]]
                       acc == ByCategoriesLoop([total_expense |-> 0,
                                                expense_by_category |-> seeded],
                                               got.transactions)
                   IN  ReturnStats(got.transactions, acc.total_expense,
                                   acc.expense_by_category)

\* The method without its test for an empty list.
GetTransactionsByCategoriesUnchecked(user_id, category_ids) ==
    /\ op' = "get_transactions_by_categories"
    /\ args' = [user_id |-> user_id, category_ids |-> category_ids]
    /\ ByCategoriesQuery(user_id, UniqueCategoryIds(category_ids))
    /\ UNCHANGED <<store, now, uuids>>

GetTransactionsByCategories(user_id, category_ids) ==
    LET unique_category_ids == UniqueCategoryIds(category_ids)
    IN  /\ op' = "get_transactions_by_categories"
        /\ args' = [user_id |-> user_id, category_ids |-> category_ids]
        /\ IF unique_category_ids = <<>>
           THEN /\ result' = Raise(DomainValidationError, "category_ids must not be empty")
                /\ repoCalls' = <<>>
           ELSE ByCategoriesQuery(user_id, unique_category_ids)
        /\ UNCHANGED <<store, now, uuids>>

GetTransactionsForPeriod(user_id, start_at, end_at) ==
    LET start == NormalizeDatetime(start_at)
        end == NormalizeDatetime(end_at)
    IN  /\ op' = "get_transactions_for_period"
        /\ args' = [user_id |-> user_id, start_at |-> start_at, end_at |-> end_at]
        /\ IF start.t > end.t
           THEN /\ result' = Raise(DomainValidationError,
                                   "start_at must be before or equal to end_at")
                /\ repoCalls' = <<>>
           ELSE /\ repoCalls' = <<"list_by_user_and_period">>
                /\ \E got \in RepoListByUserAndPeriod(store, user_id, start, end) :
                      result' =
                          IF got.status # Ok THEN got
                          ELSE LET acc == ForPeriodLoop([total_expense |-> 0,
                                                        expense_by_category |-> <<>>],
                                                       got.transactions)
                               IN  ReturnStats(got.transactions, acc.total_expense,
                                               acc.expense_by_category)
        /\ UNCHANGED <<store, now, uuids>>

-----------------------------------------------------------------------------
(* HTTP routes: each handler calls one method of the service for the user  *)
(* "demo-user" and turns its outcome into a response                       *)

\* No route has been called.
NoResponse == [route |-> None, status_code |-> 0, detail |-> None]

\* What FastAPI answers when the request does not fit the declared
\* parameters: 422, with its own list of errors as detail.
RequestValidationError(route) ==
    [route |-> route, status_code |-> 422, detail |-> "<request validation errors>"]

\* An exception no handler catches: 500.
InternalServerError(route) ==
    [route |-> route, status_code |-> 500, detail |-> "Internal Server Error"]

\* raise HTTPException(status_code=status_code, detail=str(e))
HTTPException(route, status_code, e) ==
    [route |-> route, status_code |-> status_code, detail |-> e.message]

\* The response to a call that ended in outcome: success is the route's
\* status code, caught maps the exception its except clause names to the
\* status code it raises HTTPException with.
Respond(route, success, caught, outcome) ==
    IF outcome.status = Ok
    THEN [route |-> route, status_code |-> success, detail |-> None]
    ELSE IF outcome.status \in DOMAIN caught
         THEN HTTPException(route, caught[outcome.status], outcome)
         ELSE InternalServerError(route)

\* TransactionCreateRequest does not validate the body.
RequestInvalid(request) ==
    \/ request.type \notin {"expense", "income"}
    \/ request.amount <= 0
    \/ Len(request.currency) # 3
    \/ request.description # None /\ Len(request.description) > 500

\* The request was refused before the handler ran: no service method called.
NoServiceCall ==
    /\ op' = None
    /\ args' = [user_id |-> None]
    /\ result' = ReturnNone
    /\ repoCalls' = <<>>
    /\ UNCHANGED <<store, now, uuids>>

\* POST /transactions
CreateTransactionRoute(request, clock) ==
    LET route == "POST /transactions"
    IN  /\ IF RequestInvalid(request)
           THEN /\ NoServiceCall
                /\ response' = RequestValidationError(route)
           ELSE /\ RecordTransaction("demo-user", request.type, request.amount,
                                     request.currency, request.occurred_at,
                                     request.category_id, request.account_id,
                                     request.description, clock)
                /\ response' = Respond(route, 201, DomainValidationError :> 422, result')
        /\ UNCHANGED <<ties, dbVars>>

\* GET /transactions: no except clause.
ListTransactionsRoute ==
    /\ ListTransactions("demo-user")
    /\ response' = Respond("GET /transactions", 200, <<>>, result')
    /\ UNCHANGED <<ties, dbVars>>

\* GET /transactions/by-categories; category_ids is a required query
\* parameter, <<>> stands for a request without it.
ListTransactionsByCategoriesRoute(category_ids) ==
    LET route == "GET /transactions/by-categories"
    IN  /\ IF category_ids = <<>>
           THEN /\ NoServiceCall
                /\ response' = RequestValidationError(route)
           ELSE /\ GetTransactionsByCategories("demo-user", category_ids)
                /\ response' = Respond(route, 200, DomainValidationError :> 422, result')
        /\ UNCHANGED <<ties, dbVars>>

\* The by-period handler without its try/except.
ListTransactionsByPeriodRouteUncaught(start_at, end_at) ==
    /\ GetTransactionsForPeriod("demo-user", start_at, end_at)
    /\ response' = Respond("GET /transactions/by-period", 200, <<>>, result')
    /\ UNCHANGED <<ties, dbVars>>

\* GET /transactions/by-period
ListTransactionsByPeriodRoute(start_at, end_at) ==
    /\ GetTransactionsForPeriod("demo-user", start_at, end_at)
    /\ response' = Respond("GET /transactions/by-period", 200,
                           DomainValidationError :> 422, result')
    /\ UNCHANGED <<ties, dbVars>>

\* GET /transactions/{transaction_id}: only NotFoundError is caught.
GetTransactionRoute(transaction_id) ==
    /\ GetTransaction("demo-user", transaction_id)
    /\ response' = Respond("GET /transactions/{transaction_id}", 200,
                           NotFoundError :> 404, result')
    /\ UNCHANGED <<ties, dbVars>>

-----------------------------------------------------------------------------
(* db.py: the engine and the sessionmaker of the process *)

RuntimeError == "RuntimeError"

\* One entry of dbLog: the call, its argument, the exception it raised (None
\* when it returned) and what it returned (<<>> for None).
DbCall(call, arg, error, value) ==
    [call |-> call, arg |-> arg, error |-> error, value |-> value]

\* Everything but the state of db.py stays as it is.
DbOnly == UNCHANGED <<store, now, uuids, op, args, result, repoCalls, ties, response>>

\* An init_db without its early return.
InitDbAlways(database_url, fails) ==
    LET url == IF database_url = None THEN "sqlite:///data/app.db" ELSE database_url
        made == [id |-> created + 1, url |-> url]
    IN  /\ IF fails = "create_engine"
           THEN /\ dbLog' = Append(dbLog, DbCall("init_db", database_url, fails, <<>>))
                /\ UNCHANGED <<engine, session_factory, created, disposed>>
           ELSE IF fails = "create_all"
           THEN /\ engine' = <<made>>
                /\ created' = created + 1
                /\ dbLog' = Append(dbLog, DbCall("init_db", database_url, fails, <<>>))
                /\ UNCHANGED <<session_factory, disposed>>
           ELSE /\ engine' = <<made>>
                /\ created' = created + 1
                /\ session_factory' = <<[bind |-> made]>>
                /\ dbLog' = Append(dbLog, DbCall("init_db", database_url, None, <<>>))
                /\ UNCHANGED disposed
        /\ DbOnly

\* init_db(database_url). fails names the library call that raises in this
\* run, if one does: create_engine (a URL it cannot use) or create_all (a
\* database it cannot reach); the exception leaves init_db where it is raised.
InitDb(database_url, fails) ==
    LET url == IF database_url = None THEN "sqlite:///data/app.db" ELSE database_url
        made == [id |-> created + 1, url |-> url]
    IN  /\ IF engine # <<>> /\ session_factory # <<>>
           THEN /\ dbLog' = Append(dbLog, DbCall("init_db", database_url, None, <<>>))
                /\ UNCHANGED <<engine, session_factory, created, disposed>>
           ELSE IF fails = "create_engine"
           THEN /\ dbLog' = Append(dbLog, DbCall("init_db", database_url, fails, <<>>))
                /\ UNCHANGED <<engine, session_factory, created, disposed>>
           ELSE IF fails = "create_all"
           THEN /\ engine' = <<made>>
                /\ created' = created + 1
                /\ dbLog' = Append(dbLog, DbCall("init_db", database_url, fails, <<>>))
                /\ UNCHANGED <<session_factory, disposed>>
           ELSE /\ engine' = <<made>>
                /\ created' = created + 1
                /\ session_factory' = <<[bind |-> made]>>
                /\ dbLog' = Append(dbLog, DbCall("init_db", database_url, None, <<>>))
                /\ UNCHANGED disposed
        /\ DbOnly

\* A get_session_factory that looks at _engine.
GetSessionFactoryByEngine ==
    /\ dbLog' = Append(dbLog,
                       IF engine = <<>>
                       THEN DbCall("get_session_factory", None, RuntimeError, <<>>)
                       ELSE DbCall("get_session_factory", None, None, session_factory))
    /\ UNCHANGED <<engine, session_factory, created, disposed>>
    /\ DbOnly

\* get_session_factory()
GetSessionFactory ==
    /\ dbLog' = Append(dbLog,
                       IF session_factory = <<>>
                       THEN DbCall("get_session_factory", None, RuntimeError, <<>>)
                       ELSE DbCall("get_session_factory", None, None, session_factory))
    /\ UNCHANGED <<engine, session_factory, created, disposed>>
    /\ DbOnly

\* shutdown_db()
ShutdownDb ==
    /\ disposed' = IF engine # <<>> THEN disposed \cup {engine[1].id} ELSE disposed
    /\ engine' = <<>>
    /\ session_factory' = <<>>
    /\ dbLog' = Append(dbLog, DbCall("shutdown_db", None, None, <<>>))
    /\ UNCHANGED created
    /\ DbOnly

-----------------------------------------------------------------------------
(* The process at its start: an empty table, no request answered, db.py    *)
(* not initialized                                                         *)

Init ==
    /\ store = <<>>
    /\ now = 0
    /\ uuids = 0
    /\ op = "init"
    /\ args = [user_id |-> None]
    /\ result = ReturnNone
    /\ repoCalls = <<>>
    /\ ties \in {"insertion", "reverse"}
    /\ response = NoResponse
    /\ engine = <<>>
    /\ session_factory = <<>>
    /\ created = 0
    /\ disposed = {}
    /\ dbLog = <<>>

-----------------------------------------------------------------------------
(* Callers: the inputs each specification draws *)

UserIds == {"u1", "u2"}

TransactionIds == {Str(n) : n \in 1..(MaxStore + 1)}

\* A call made on the service itself: no route answers, db.py is not touched.
DirectCall == UNCHANGED <<ties, response, dbVars>>

\* Spec: record_transaction with valid and invalid inputs, and the reads.
RecordAny ==
    /\ Len(store) < MaxStore
    /\ \E user_id \in UserIds \cup {""}, tx_type \in TransactionType \cup {"transfer"},
          amount \in {0, 4, 1000}, currency \in {"RU", "RUB"},
          occurred_at \in {DateTime(1, UTC), DateTime(1, None)} :
          RecordTransaction(user_id, tx_type, amount, currency, occurred_at,
                            None, None, None, now + 1) /\ DirectCall

GetAny ==
    \E user_id \in UserIds, transaction_id \in TransactionIds :
        GetTransaction(user_id, transaction_id) /\ DirectCall

ListAny == \E user_id \in UserIds : ListTransactions(user_id) /\ DirectCall

ByCategoriesFew ==
    \E category_ids \in {<<>>, <<"food">>} :
        GetTransactionsByCategories("u1", category_ids) /\ DirectCall

ForPeriodFew ==
    \E end_at \in {DateTime(0, UTC), DateTime(1, UTC)} :
        GetTransactionsForPeriod("u1", DateTime(1, UTC), end_at) /\ DirectCall

Next == RecordAny \/ GetAny \/ ListAny \/ ByCategoriesFew \/ ForPeriodFew

Spec == Init /\ [][Next]_vars

\* SpecCat: expenses and incomes over the categories, read by user u1.
CatInputs ==
    ({"u1"} \X TransactionType \X {1000, 2000} \X {None, "food", "transport"})
        \cup {<<"u2", "expense", 2000, "food">>}

CategoryLists ==
    {<<>>, <<"food">>, <<"health">>, <<"food", "transport">>, <<"transport", "food">>,
     <<"food", "food">>, <<"food", "transport", "food">>,
     <<"transport", "transport", "food">>}

RecordCat ==
    /\ Len(store) < MaxStore
    /\ \E in \in CatInputs :
          RecordTransaction(in[1], in[2], in[3], "RUB", DateTime(1, UTC),
                            in[4], None, None, now + 1) /\ DirectCall

GetOne == GetTransaction("u1", Str(1)) /\ DirectCall

ListOne == ListTransactions("u1") /\ DirectCall

ByCategoriesAny ==
    \E category_ids \in CategoryLists :
        GetTransactionsByCategories("u1", category_ids) /\ DirectCall

NextCat == RecordCat \/ GetOne \/ ListOne \/ ByCategoriesAny \/ ForPeriodFew

SpecCat == Init /\ [][NextCat]_vars

\* SpecScenario: the three transactions of the by-categories example.
ScenarioInputs ==
    {<<"expense", 100000, "food">>, <<"income", 20000, "food">>,
     <<"expense", 40000, "transport">>}

RecordScenario ==
    /\ Len(store) < MaxScenario
    /\ \E in \in ScenarioInputs :
          RecordTransaction("u1", in[1], in[2], "RUB", DateTime(1, UTC),
                            in[3], None, None, now + 1) /\ DirectCall

ByCategoriesScenario ==
    \E category_ids \in {<<>>, <<"food", "transport">>} :
        GetTransactionsByCategories("u1", category_ids) /\ DirectCall

NextScenario ==
    RecordScenario \/ GetOne \/ ListOne \/ ByCategoriesScenario \/ ForPeriodFew

SpecScenario == Init /\ [][NextScenario]_vars

\* SpecPeriod: transactions at three instants, read over every range of them.
PeriodInputs ==
    ({"u1"} \X TransactionType \X {1000} \X {None, "food"} \X {1, 2, 3})
        \cup {<<"u1", "expense", 4, "food", 2>>, <<"u2", "expense", 1000, "food", 2>>}

Instants == {DateTime(t, UTC) : t \in {1, 2, 3}}

PeriodRanges ==
    (Instants \X Instants)
        \cup {<<DateTime(1, None), DateTime(3, UTC)>>, <<DateTime(3, UTC), DateTime(1, None)>>,
              <<DateTime(2, None), DateTime(2, None)>>}

RecordPeriod ==
    /\ Len(store) < MaxStore
    /\ \E in \in PeriodInputs :
          RecordTransaction(in[1], in[2], in[3], "RUB", DateTime(in[5], UTC),
                            in[4], None, None, now + 1) /\ DirectCall

ForPeriodAny ==
    \E range \in PeriodRanges :
        GetTransactionsForPeriod("u1", range[1], range[2]) /\ DirectCall

NextPeriod == RecordPeriod \/ GetOne \/ ListOne \/ ByCategoriesFew \/ ForPeriodAny

SpecPeriod == Init /\ [][NextPeriod]_vars

\* SpecOrder: transactions of differing and of equal created_at and
\* occurred_at. Two calls of datetime.now can read the same value (the clock
\* has a resolution), so the clock of a record is the last reading or the next.
OrderInputs ==
    ({"u1"} \X {"food", None} \X {1, 2}) \cup {<<"u2", "food", 1>>}

RecordOrder ==
    /\ Len(store) < MaxStore
    /\ \E in \in OrderInputs, clock \in {now, now + 1} :
          RecordTransaction(in[1], "expense", 1000, "RUB", DateTime(in[3], UTC),
                            in[2], None, None, clock) /\ DirectCall

ForPeriodOrder ==
    GetTransactionsForPeriod("u1", DateTime(1, UTC), DateTime(2, UTC)) /\ DirectCall

NextOrder == RecordOrder \/ GetOne \/ ListOne \/ ByCategoriesFew \/ ForPeriodOrder

SpecOrder == Init /\ [][NextOrder]_vars

\* SpecHttp: requests to the five routes, valid and invalid.
Requests ==
    [type : {"expense", "income", "transfer"}, amount : {0, 4, 1000},
     currency : {"RU", "RUB"}, occurred_at : {DateTime(1, UTC), DateTime(2, None)},
     category_id : {None, "food"}, account_id : {None}, description : {None}]

PostTransactions ==
    /\ Len(store) < MaxStore
    /\ \E request \in Requests : CreateTransactionRoute(request, now + 1)

GetTransactions == ListTransactionsRoute

GetByCategories ==
    \E category_ids \in {<<>>, <<"food">>, <<"food", "health">>} :
        ListTransactionsByCategoriesRoute(category_ids)

GetByPeriod ==
    \E start_at, end_at \in {DateTime(1, UTC), DateTime(2, None)} :
        ListTransactionsByPeriodRoute(start_at, end_at)

GetById == \E transaction_id \in TransactionIds : GetTransactionRoute(transaction_id)

NextHttp ==
    PostTransactions \/ GetTransactions \/ GetByCategories \/ GetByPeriod \/ GetById

SpecHttp == Init /\ [][NextHttp]_vars

\* SpecDb: init_db, get_session_factory and shutdown_db in every order.
DatabaseUrls == {None, "sqlite:///test.db"}

InitDbAny ==
    /\ Len(dbLog) < MaxDbCalls
    /\ \E database_url \in DatabaseUrls, fails \in {None, "create_engine", "create_all"} :
          InitDb(database_url, fails)

GetSessionFactoryAny == Len(dbLog) < MaxDbCalls /\ GetSessionFactory

ShutdownDbAny == Len(dbLog) < MaxDbCalls /\ ShutdownDb

NextDb == InitDbAny \/ GetSessionFactoryAny \/ ShutdownDbAny

SpecDb == Init /\ [][NextDb]_vars

RECURSIVE Chars(_)
\* A string of n characters.
Chars(n) ==
    IF n = 0 THEN ""
    ELSE IF n % 2 = 1 THEN "x" \o Chars(n - 1)
         ELSE LET half == Chars(n \div 2) IN half \o half

\* SpecDescription: descriptions up to and beyond 500 characters, given to
\* the service by user u1 and to POST /transactions.
\* A record whose commit is refused draws an id and stores no row, so the
\* bound is on the ids drawn.
Descriptions == {None, "lunch", Chars(500), Chars(501)}

RecordDescribed ==
    /\ uuids < MaxStore
    /\ \E description \in Descriptions :
          RecordTransaction("u1", "expense", 1000, "RUB", DateTime(1, UTC),
                            None, None, description, now + 1) /\ DirectCall

PostDescribed ==
    /\ uuids < MaxStore
    /\ \E description \in Descriptions :
          CreateTransactionRoute([type |-> "expense", amount |-> 1000, currency |-> "RUB",
                                  occurred_at |-> DateTime(1, UTC), category_id |-> None,
                                  account_id |-> None, description |-> description],
                                 now + 1)

NextDescription == RecordDescribed \/ PostDescribed \/ ListOne \/ GetTransactions

SpecDescription == Init /\ [][NextDescription]_vars

\* SpecDomain: the constructors of the domain model, called on their own.
Amounts == {-1000, -1, 0, 1, 4, 1000}

Currencies == {"", "R", "RU", "RUB", "usd", "RUBL"}

MoneyAny ==
    \E amount \in Amounts, currency \in Currencies :
        CallMoney(amount, currency) /\ DirectCall

CreateAny ==
    /\ uuids < MaxCreate
    /\ \E user_id \in {"", "u1"}, type \in TransactionType,
          money \in {Money(1000, "RUB"), Money(4, "usd")},
          occurred_at \in {DateTime(1, UTC), DateTime(1, None)},
          category_id \in {None, "food"}, description \in {None, "lunch"} :
          CallTransactionCreate(user_id, type, money, occurred_at,
                                category_id, None, description, now + 1) /\ DirectCall

NextDomain == MoneyAny \/ CreateAny

SpecDomain == Init /\ [][NextDomain]_vars

-----------------------------------------------------------------------------
(* Properties *)

RECURSIVE SumOver(_, _)
\* The sum of f[x] over the finite set S.
SumOver(f, S) ==
    IF S = {} THEN 0
    ELSE LET x == CHOOSE y \in S : TRUE IN f[x] + SumOver(f, S \ {x})

\* The rows of the table as the repository reads them, for the rows it can read.
Readable == {i \in DOMAIN store : ToDomainError(store[i]) = None}

ByCategoriesReturned == op = "get_transactions_by_categories" /\ result.status = Ok

\* Positions of the expense transactions of the returned list.
ReturnedExpenses ==
    {i \in DOMAIN result.transactions : result.transactions[i].type = "expense"}

\* C1: what get_transactions_by_categories returns holds only transactions of
\* the requesting user, each stored row once; total_expense is the sum of the
\* amounts of the expense transactions of the returned list, whatever their
\* category; every per-category value is the sum over the returned expenses of
\* that category, so that incomes add to neither.
C1_TotalIsSumOfReturnedExpenses ==
    ByCategoriesReturned =>
        /\ \A i \in DOMAIN result.transactions :
               /\ result.transactions[i].user_id = args.user_id
               /\ \E k \in DOMAIN store : result.transactions[i] = ToDomain(store[k])
        /\ \A i, j \in DOMAIN result.transactions :
               i # j => result.transactions[i].id # result.transactions[j].id
        /\ result.total_expense =
               SumOver([i \in DOMAIN result.transactions |-> result.transactions[i].money.amount], ReturnedExpenses)
        /\ \A e \in DOMAIN result.expense_by_category :
               result.expense_by_category[e].value =
                   SumOver([i \in DOMAIN result.transactions |-> result.transactions[i].money.amount],
                           {i \in ReturnedExpenses :
                               result.transactions[i].category_id =
                                   result.expense_by_category[e].key})

\* C1 witness: the returned list holds an income of the user while another
\* user holds an expense in a requested category, and the total is zero.
C1_Witness ==
    /\ ByCategoriesReturned
    /\ \E i \in DOMAIN result.transactions : result.transactions[i].type = "income"
    /\ \E k \in DOMAIN store :
           /\ store[k].user_id # args.user_id
           /\ store[k].type = "expense"
           /\ \E c \in DOMAIN args.category_ids : args.category_ids[c] = store[k].category_id
    /\ result.total_expense = 0

\* The store holds exactly the three transactions of the example.
ScenarioStore ==
    /\ Len(store) = 3
    /\ \A in \in ScenarioInputs :
           \E k \in DOMAIN store :
               /\ store[k].user_id = "u1"
               /\ <<store[k].type, store[k].amount, store[k].category_id>> = in

ScenarioCall ==
    /\ ScenarioStore
    /\ op = "get_transactions_by_categories"
    /\ args.user_id = "u1"
    /\ args.category_ids = <<"food", "transport">>

ScenarioByCategory ==
    <<[key |-> "food", value |-> 100000], [key |-> "transport", value |-> 40000]>>

\* C2 as stated: with expense(food,100), income(food,20), expense(transport,40)
\* stored for the user, get_transactions_by_categories(["food","transport"])
\* returns total_expense 120 and expense_by_category {food: 100, transport: 40}.
C2_TotalIs120 ==
    ScenarioCall =>
        /\ result.status = Ok
        /\ result.total_expense = 120000
        /\ result.expense_by_category = ScenarioByCategory

\* C2 amended: on that store the call returns the three transactions,
\* total_expense 140 (the two expenses, 100 + 40, the income of 20 left out)
\* and expense_by_category {food: 100, transport: 40}.
C2_TotalIs140 ==
    ScenarioCall =>
        /\ result.status = Ok
        /\ Len(result.transactions) = 3
        /\ result.total_expense = 140000
        /\ result.expense_by_category = ScenarioByCategory

\* C2 witness: the call of the example on the store of the example.
C2_Witness == ScenarioCall /\ result.status = Ok

\* Positions of the first occurrences in a sequence.
FirstOccurrences(seq) == {i \in DOMAIN seq : \A j \in 1..(i - 1) : seq[j] # seq[i]}

\* The stored expenses of a user in a category.
ExpenseRows(user_id, category_id) ==
    {k \in DOMAIN store :
        /\ store[k].user_id = user_id
        /\ store[k].type = "expense"
        /\ store[k].category_id = category_id}

\* C3: expense_by_category has one entry per requested id, in the order of
\* the first occurrences in the input; the entry of an id is the sum of the
\* amounts of the user's stored expenses in that category, zero when there are
\* none.
C3_EntryPerRequestedId ==
    ByCategoriesReturned =>
        LET first == FirstOccurrences(args.category_ids)
            by == result.expense_by_category
        IN  /\ Len(by) = Cardinality(first)
            /\ \A e \in DOMAIN by :
                   \E i \in first :
                       /\ Cardinality({j \in first : j <= i}) = e
                       /\ by[e].key = args.category_ids[i]
            /\ \A e \in DOMAIN by :
                   by[e].value =
                       SumOver([k \in DOMAIN store |-> ToDomain(store[k]).money.amount],
                               ExpenseRows(args.user_id, by[e].key))

\* C3 witness: a list with a repeated id, one id with expenses and one without.
C3_Witness ==
    /\ ByCategoriesReturned
    /\ args.category_ids = <<"food", "transport", "food">>
    /\ result.expense_by_category[1].value > 0
    /\ result.expense_by_category[2].value = 0
    /\ \E i \in DOMAIN result.transactions :
           /\ result.transactions[i].type = "income"
           /\ result.transactions[i].category_id = "transport"

\* C4: with an empty category_ids list get_transactions_by_categories raises
\* the validation error and calls no method of the repository.
C4_EmptyCategoriesRejected ==
    (op = "get_transactions_by_categories" /\ args.category_ids = <<>>)
        => /\ result.status = DomainValidationError
           /\ result.message = "category_ids must not be empty"
           /\ repoCalls = <<>>

\* C4 witness: the call with an empty list on a table that holds rows of both
\* users.
C4_Witness ==
    /\ op = "get_transactions_by_categories"
    /\ args.category_ids = <<>>
    /\ result.status = DomainValidationError
    /\ \E i, j \in DOMAIN store : store[i].user_id = "u1" /\ store[j].user_id = "u2"

PeriodReturned == op = "get_transactions_for_period" /\ result.status = Ok

\* The stored rows of the requesting user inside the requested range.
RowsInRange ==
    {k \in DOMAIN store :
        /\ store[k].user_id = args.user_id
        /\ NormalizeDatetime(args.start_at).t <= store[k].occurred_at.t
        /\ store[k].occurred_at.t <= NormalizeDatetime(args.end_at).t}

\* C5 as stated: get_transactions_for_period raises the validation error
\* exactly when start_at, naive inputs taken as UTC, is later than end_at; with
\* start_at = end_at it returns; when it fails the repository was not queried.
C5_FailsExactlyWhenStartAfterEnd ==
    op = "get_transactions_for_period" =>
        /\ (result.status = DomainValidationError)
               <=> (NormalizeDatetime(args.start_at).t > NormalizeDatetime(args.end_at).t)
        /\ NormalizeDatetime(args.start_at).t = NormalizeDatetime(args.end_at).t
               => result.status = Ok
        /\ result.status # Ok => repoCalls = <<>>

\* C5 where every row of the range reads back with a positive amount: there
\* the statement holds.
C5_OnReadableRange ==
    (op = "get_transactions_for_period" /\ RowsInRange \subseteq Readable)
        => /\ (result.status = DomainValidationError)
                  <=> (NormalizeDatetime(args.start_at).t > NormalizeDatetime(args.end_at).t)
           /\ result.status # DomainValidationError => result.status = Ok
           /\ result.status # Ok => repoCalls = <<>>

\* C6: what get_transactions_for_period returns is each stored row of the
\* requesting user with start_at <= occurred_at <= end_at once, and no other
\* transaction; total_expense is the sum of the amounts of the expenses among
\* them, the incomes of the list adding nothing.
C6_PeriodIsInclusiveRange ==
    PeriodReturned =>
        /\ Len(result.transactions) = Cardinality(RowsInRange)
        /\ \A k \in RowsInRange :
               \E i \in DOMAIN result.transactions : result.transactions[i] = ToDomain(store[k])
        /\ \A i \in DOMAIN result.transactions :
               \E k \in RowsInRange : result.transactions[i] = ToDomain(store[k])
        /\ result.total_expense =
               SumOver([i \in DOMAIN result.transactions |-> result.transactions[i].money.amount], ReturnedExpenses)

\* C6 witness: a range with start_at < end_at, an income that occurred at
\* start_at and an expense that occurred at end_at, both returned.
C6_Witness ==
    /\ PeriodReturned
    /\ args.start_at.t < args.end_at.t
    /\ \E i, j \in DOMAIN result.transactions :
           /\ result.transactions[i].type = "income"
           /\ result.transactions[i].occurred_at.t = args.start_at.t
           /\ result.transactions[j].type = "expense"
           /\ result.transactions[j].occurred_at.t = args.end_at.t
    /\ result.total_expense > 0

\* C7: the keys of the expense_by_category of get_transactions_for_period are
\* the category_id values, None among them, of the expenses of the returned
\* list, each once: a category seen only on incomes, or not at all, is no key.
C7_KeysAreExpenseCategories ==
    PeriodReturned =>
        LET by == result.expense_by_category
        IN  /\ {by[e].key : e \in DOMAIN by} =
                   {result.transactions[i].category_id : i \in ReturnedExpenses}
            /\ \A e, f \in DOMAIN by : e # f => by[e].key # by[f].key

\* C7 witness: an expense without category and an income in category food are
\* returned; None is a key and food is not.
C7_Witness ==
    /\ PeriodReturned
    /\ \E i, j \in DOMAIN result.transactions :
           /\ result.transactions[i].type = "expense"
           /\ result.transactions[i].category_id = None
           /\ result.transactions[j].type = "income"
           /\ result.transactions[j].category_id = "food"
    /\ DictHas(result.expense_by_category, None)
    /\ ~DictHas(result.expense_by_category, "food")

\* The stored rows with the requested id that the requesting user owns.
OwnedRows ==
    {k \in DOMAIN store :
        store[k].id = args.transaction_id /\ store[k].user_id = args.user_id}

\* C8 as stated: get_transaction returns the stored transaction only when the
\* id exists and belongs to the requesting user; for an absent id and for an
\* id of another user it raises the same NotFoundError with the same message.
C8_NotFoundUnlessOwned ==
    op = "get_transaction" =>
        /\ result.status = Ok =>
               \E k \in OwnedRows : result.tx = <<ToDomain(store[k])>>
        /\ OwnedRows = {} =>
               /\ result.status = NotFoundError
               /\ result.message = "Transaction not found"

\* C8 where the requested row, if there is one, reads back with a positive
\* amount: there the statement holds.
C8_OnReadableRow ==
    (/\ op = "get_transaction"
     /\ \A k \in DOMAIN store : store[k].id = args.transaction_id => k \in Readable)
        => /\ result.status = Ok =>
                  \E k \in OwnedRows : result.tx = <<ToDomain(store[k])>>
           /\ OwnedRows = {} =>
                  /\ result.status = NotFoundError
                  /\ result.message = "Transaction not found"
           /\ OwnedRows # {} => result.status = Ok

\* The inputs of record_transaction other than tx_type are valid.
OtherwiseValid(a) == a.amount > 0 /\ Len(a.currency) = 3 /\ a.user_id # ""

\* C9: record_transaction with a tx_type other than "expense" and "income"
\* raises the validation error whatever its other inputs; with one of the two
\* and otherwise valid inputs it returns a transaction whose id no row of the
\* table had before the call.
C9_TypeCheckedAndIdFresh ==
    [][op' = "record_transaction" =>
          /\ args'.tx_type \notin {"expense", "income"} =>
                 /\ result'.status = DomainValidationError
                 /\ store' = store
          /\ (args'.tx_type \in {"expense", "income"} /\ OtherwiseValid(args')) =>
                 /\ result'.status = Ok
                 /\ Len(result'.tx) = 1
                 /\ \A k \in DOMAIN store : store[k].id # result'.tx[1].id
                 /\ Len(store') = Len(store) + 1
                 /\ store'[Len(store')].id = result'.tx[1].id]_vars

\* C9 witness: record_transaction returned while the table already held a row.
C9_Witness ==
    /\ op = "record_transaction"
    /\ result.status = Ok
    /\ Len(store) >= 2
    /\ args.tx_type = "income"

\* C10: when record_transaction raises the validation error the repository's
\* add was not called and the table is what it was before the call.
C10_NoWriteOnValidationError ==
    [][(op' = "record_transaction" /\ result'.status = DomainValidationError) =>
          /\ store' = store
          /\ repoCalls' = <<>>]_vars

\* C10 witness: record_transaction refused an empty user_id, the last of its
\* checks, on a table that holds a row.
C10_Witness ==
    /\ op = "record_transaction"
    /\ result.status = DomainValidationError
    /\ result.message = "user_id is required"
    /\ Len(store) >= 1

\* The transaction record_transaction returned when it stored this row.
Recorded(row) ==
    Transaction(row.id, row.user_id, row.type, Money(row.amount, row.currency),
                row.occurred_at, row.created_at,
                row.category_id, row.account_id, row.description)

\* The table only grows: a record_transaction that returns appends the row of
\* the transaction it returns, and every other call leaves the table as it is.
C11_StoreOnlyGrows ==
    [][IF op' = "record_transaction" /\ result'.status = Ok
       THEN store' = Append(store, TransactionORM(result'.tx[1]))
       ELSE store' = store]_vars

\* C11 as stated: the table only grows, and whenever a user asks for a
\* transaction recorded for them, get_transaction returns it as
\* record_transaction returned it and list_transactions returns a list that
\* holds it.
C11_RecordedStaysObservable ==
    [][/\ IF op' = "record_transaction" /\ result'.status = Ok
          THEN store' = Append(store, TransactionORM(result'.tx[1]))
          ELSE store' = store
       /\ op' = "get_transaction" =>
              \A k \in DOMAIN store' :
                  (store'[k].id = args'.transaction_id
                       /\ store'[k].user_id = args'.user_id)
                      => result' = ReturnTx(Recorded(store'[k]))
       /\ op' = "list_transactions" =>
              \A k \in DOMAIN store' :
                  store'[k].user_id = args'.user_id
                      => /\ result'.status = Ok
                         /\ \E i \in DOMAIN result'.transactions :
                                result'.transactions[i] = Recorded(store'[k])]_vars

\* C12: constructing Money raises the validation error for every amount <= 0
\* and for every currency whose length is not 3, the empty string among them;
\* for an amount > 0 with a currency of length 3 it returns the Money holding
\* the two values.
C12_MoneyValidates ==
    op = "Money" =>
        IF args.amount <= 0 \/ Len(args.currency) # 3
        THEN result.status = DomainValidationError
        ELSE result = ReturnValue([amount |-> args.amount, currency |-> args.currency])

\* C12 witness: a positive amount with the empty currency was refused.
C12_Witness ==
    /\ op = "Money"
    /\ args.amount > 0
    /\ args.currency = ""
    /\ result.status = DomainValidationError

\* C13: Transaction.create raises the validation error when user_id is empty
\* and when occurred_at is naive; otherwise it returns a transaction holding
\* the seven given fields unchanged, an id that is not the empty string and an
\* aware created_at.
C13_CreateValidates ==
    op = "Transaction.create" =>
        IF args.user_id = "" \/ args.occurred_at.tzinfo = None
        THEN result.status = DomainValidationError
        ELSE /\ result.status = Ok
             /\ [f \in DOMAIN args |-> result.value[f]] = args
             /\ result.value.id # ""
             /\ result.value.created_at.tzinfo # None

\* C13 witness: create returned a transaction with a category and a
\* description.
C13_Witness ==
    /\ op = "Transaction.create"
    /\ result.status = Ok
    /\ result.value.category_id = "food"
    /\ result.value.description = "lunch"
    /\ result.value.user_id = "u1"

\* C14: record_transaction with a naive occurred_at and otherwise valid inputs
\* returns, and the row it stores has the same wall clock with tzinfo UTC;
\* record_transaction never raises the error Transaction.create has for a
\* naive occurred_at; the occurred_at of every row of the table is aware.
C14_NaiveBecomesUtc ==
    /\ \A k \in DOMAIN store : store[k].occurred_at.tzinfo # None
    /\ op = "record_transaction" =>
           /\ result.message # "occurred_at must be timezone-aware (e.g. UTC)"
           /\ (/\ args.occurred_at.tzinfo = None
               /\ args.tx_type \in TransactionType
               /\ OtherwiseValid(args)) =>
                  /\ result.status = Ok
                  /\ result.tx[1].occurred_at = DateTime(args.occurred_at.t, UTC)
                  /\ store[Len(store)].id = result.tx[1].id
                  /\ store[Len(store)].occurred_at = DateTime(args.occurred_at.t, UTC)

\* C14 witness: a second transaction was recorded from a naive occurred_at.
C14_Witness ==
    /\ op = "record_transaction"
    /\ args.occurred_at.tzinfo = None
    /\ result.status = Ok
    /\ Len(store) = 2
    /\ store[2].occurred_at.tzinfo = UTC

\* What the repository gives back for row k of the table is the transaction
\* the row was stored from: from get by its id, and in every list that
\* matches it.
RoundTrip(k) ==
    LET row == store[k]
        t == Recorded(row)
        Holds(got) == /\ got.status = Ok
                      /\ \E i \in DOMAIN got.transactions : got.transactions[i] = t
    IN  /\ RepoGet(store, row.id) = ReturnTx(t)
        /\ \A got \in RepoListByUser(store, row.user_id) : Holds(got)
        /\ \A got \in RepoListByUserAndPeriod(store, row.user_id,
                                             row.occurred_at, row.occurred_at) : Holds(got)
        /\ row.category_id # None =>
               \A got \in RepoListByUserAndCategories(store, row.user_id,
                                                     <<row.category_id>>) : Holds(got)

\* C15 as stated: every stored transaction, whatever the number of decimal
\* places of its amount, comes back from get and from the list_* calls equal
\* to the transaction add was given, field by field.
C15_RoundTripAnyAmount == \A k \in DOMAIN store : RoundTrip(k)

\* C15 for a table all of whose amounts have at most two decimal places: there
\* the statement holds.
C15_RoundTripInCents ==
    (\A k \in DOMAIN store : store[k].amount % Cent = 0)
        => \A k \in DOMAIN store : RoundTrip(k)

\* The four reads of the service.
Reads ==
    {"get_transaction", "list_transactions", "get_transactions_by_categories",
     "get_transactions_for_period"}

C17_AllAndOnlyOfUser ==
    (op = "list_transactions" /\ result.status = Ok) =>
        LET owned == {k \in DOMAIN store : store[k].user_id = args.user_id}
        IN  /\ Len(result.transactions) = Cardinality(owned)
            /\ \A k \in owned :
                   \E i \in DOMAIN result.transactions :
                       result.transactions[i] = ToDomain(store[k])
            /\ \A i \in DOMAIN result.transactions :
                   result.transactions[i].user_id = args.user_id

\* C17 witness: the table holds rows of two users and list_transactions
\* returned the one row of the requested user.
C17_Witness ==
    /\ op = "list_transactions"
    /\ result.status = Ok
    /\ Len(result.transactions) = 1
    /\ \E k \in DOMAIN store : store[k].user_id # args.user_id

\* The sequence never increases in the key f[i] of its i-th element.
NonIncreasing(f) == \A i, j \in DOMAIN f : i < j => f[i] >= f[j]

\* The place in the table of the row a returned transaction was read from.
RowOf(tx) == CHOOSE k \in DOMAIN store : store[k].id = tx.id

\* What the three list methods of the service return is what the store
\* returned, in the store's order, and that order never increases in the key:
\* created_at for list_transactions and get_transactions_by_categories,
\* occurred_at for get_transactions_for_period.
NewestFirstByKey ==
    LET txs == result.transactions
    IN  /\ (op = "list_transactions" /\ result.status = Ok) =>
               /\ ReturnList(txs) \in RepoListByUser(store, args.user_id)
               /\ NonIncreasing([i \in DOMAIN txs |-> txs[i].created_at.t])
        /\ ByCategoriesReturned =>
               /\ ReturnList(txs) \in RepoListByUserAndCategories(
                                          store, args.user_id,
                                          UniqueCategoryIds(args.category_ids))
               /\ NonIncreasing([i \in DOMAIN txs |-> txs[i].created_at.t])
        /\ PeriodReturned =>
               /\ ReturnList(txs) \in RepoListByUserAndPeriod(
                                          store, args.user_id,
                                          NormalizeDatetime(args.start_at),
                                          NormalizeDatetime(args.end_at))
               /\ NonIncreasing([i \in DOMAIN txs |-> txs[i].occurred_at.t])

\* C18 as stated: the lists are newest first by key, and in the lists ordered
\* by created_at a transaction recorded later never comes after one recorded
\* earlier.
C18_LaterRecordedNeverAfter ==
    /\ NewestFirstByKey
    /\ ((op = "list_transactions" /\ result.status = Ok) \/ ByCategoriesReturned) =>
           \A i, j \in DOMAIN result.transactions :
               i < j => RowOf(result.transactions[i]) > RowOf(result.transactions[j])

\* C18: every list the store returns is ordered newest first by the
\* operation's key, created_at for list_by_user and
\* list_by_user_and_categories and occurred_at for list_by_user_and_period,
\* and the service returns it in that order; in the lists ordered by
\* created_at a transaction never comes after one whose created_at is earlier
\* than its own.
C18_NewestFirstByKey ==
    /\ NewestFirstByKey
    /\ ((op = "list_transactions" /\ result.status = Ok) \/ ByCategoriesReturned) =>
           \A i, j \in DOMAIN result.transactions :
               result.transactions[i].created_at.t < result.transactions[j].created_at.t
                   => i > j

\* C18 witness: list_transactions returned two transactions of equal
\* created_at, the one recorded first before the one recorded second.
C18_Witness ==
    /\ op = "list_transactions"
    /\ result.status = Ok
    /\ Len(result.transactions) = 2
    /\ result.transactions[1].created_at = result.transactions[2].created_at
    /\ RowOf(result.transactions[1]) < RowOf(result.transactions[2])

\* C19: a route answers the validation error of record_transaction,
\* get_transactions_by_categories or get_transactions_for_period with 422 and
\* the error's message as detail, and the NotFoundError of get_transaction
\* with 404; it answers 201 when record_transaction returned and 200 when a
\* read returned.
C19_StatusCodes ==
    /\ (/\ op \in {"record_transaction", "get_transactions_by_categories",
                   "get_transactions_for_period"}
        /\ result.status = DomainValidationError) =>
           /\ response.status_code = 422
           /\ response.detail = result.message
    /\ (op = "get_transaction" /\ result.status = NotFoundError) =>
           /\ response.status_code = 404
           /\ response.detail = result.message
    /\ (op = "record_transaction" /\ result.status = Ok) => response.status_code = 201
    /\ (op \in Reads /\ result.status = Ok) => response.status_code = 200

\* C19 witness: GET /transactions/by-period with start_at after end_at was
\* answered 422 with the message of the service's error.
C19_Witness ==
    /\ response.route = "GET /transactions/by-period"
    /\ op = "get_transactions_for_period"
    /\ result.status = DomainValidationError
    /\ response.status_code = 422
    /\ response.detail = "start_at must be before or equal to end_at"
    /\ Len(store) >= 1

\* Call i of dbLog is an init_db that returned.
Completed(i) == dbLog[i].call = "init_db" /\ dbLog[i].error = None

\* Among the first n calls an init_db returned and no shutdown_db came after it.
InitializedAfter(n) ==
    \E j \in 1..n :
        /\ Completed(j)
        /\ \A k \in (j + 1)..n : dbLog[k].call # "shutdown_db"

\* C20: get_session_factory raises RuntimeError exactly when no init_db has
\* returned since the last shutdown_db, or since the start, and otherwise
\* returns the session factory, bound to an engine that is not disposed;
\* shutdown_db returns in every state, also before any init_db and right
\* after a shutdown_db; an init_db after a shutdown_db makes a new engine and
\* a new session factory.
C20_FactoryExactlyWhenInitialized ==
    \A n \in DOMAIN dbLog :
        LET this == dbLog[n]
        IN  /\ this.call = "get_session_factory" =>
                   IF InitializedAfter(n - 1)
                   THEN /\ this.error = None
                        /\ Len(this.value) = 1
                        /\ n = Len(dbLog) =>
                               /\ this.value = session_factory
                               /\ session_factory[1].bind = engine[1]
                               /\ engine[1].id \notin disposed
                   ELSE this.error = RuntimeError /\ this.value = <<>>
            /\ this.call = "shutdown_db" =>
                   /\ this.error = None
                   /\ n = Len(dbLog) => engine = <<>> /\ session_factory = <<>>
            /\ (n = Len(dbLog) /\ n > 1 /\ Completed(n)
                    /\ dbLog[n - 1].call = "shutdown_db") =>
                   /\ Len(engine) = 1
                   /\ engine[1].id = created
                   /\ engine[1].id \notin disposed
                   /\ session_factory = <<[bind |-> engine[1]]>>

\* C20 witness: init_db, shutdown_db, init_db, and then get_session_factory
\* returned the factory of the second engine.
C20_Witness ==
    /\ Len(dbLog) = 4
    /\ Completed(1)
    /\ dbLog[2].call = "shutdown_db"
    /\ Completed(3)
    /\ dbLog[4].call = "get_session_factory"
    /\ dbLog[4].value = session_factory
    /\ disposed = {1}
    /\ engine[1].id = 2

\* C21: an init_db called while the database is initialized, that is after an
\* init_db that returned and no shutdown_db since, returns without making an
\* engine, whatever its database_url, and leaves _engine and _session_factory
\* the objects they were: get_session_factory returns the same factory as
\* before the call.
C21_InitDbIdempotent ==
    [][(/\ InitializedAfter(Len(dbLog))
        /\ Len(dbLog') = Len(dbLog) + 1
        /\ dbLog'[Len(dbLog')].call = "init_db") =>
           /\ dbLog'[Len(dbLog')].error = None
           /\ created' = created
           /\ engine' = engine
           /\ session_factory' = session_factory
           /\ Len(session_factory) = 1
           /\ disposed' = disposed]_vars

\* C21 witness: the database was initialized with the default URL, init_db
\* was called again with another URL, and get_session_factory then returned
\* the factory of the one engine made.
C21_Witness ==
    /\ Len(dbLog) = 3
    /\ Completed(1) /\ dbLog[1].arg = None
    /\ Completed(2) /\ dbLog[2].arg = "sqlite:///test.db"
    /\ dbLog[3].call = "get_session_factory"
    /\ dbLog[3].value = <<[bind |-> [id |-> 1, url |-> "sqlite:///data/app.db"]]>>
    /\ created = 1

\* C22 as stated: the description of every row of the table is absent or at
\* most 500 characters long.
C22_DescriptionAtMost500 ==
    \A k \in DOMAIN store :
        store[k].description = None \/ Len(store[k].description) <= 500

\* C22 for the rows recorded through POST /transactions, whose request body
\* TransactionCreateRequest validates: there the statement holds.
C22_ThroughTheRoute ==
    \A k \in DOMAIN store :
        store[k].user_id = "demo-user" =>
            store[k].description = None \/ Len(store[k].description) <= 500

\* The list without the repetitions of its elements, first occurrences kept.
WithoutRepeats(seq) ==
    LET first == FirstOccurrences(seq)
    IN  [e \in 1..Cardinality(first) |->
            seq[CHOOSE i \in first : Cardinality({j \in first : j <= i}) = e]]

\* C23: in every result of get_transactions_by_categories no returned
\* transaction is without category, the keys of expense_by_category are the
\* requested ids, each once and no other, and total_expense is the sum of the
\* values of expense_by_category; a call whose list differs from the list of
\* the call before it only by repetitions returns the same result.
C23_ByCategoriesResult ==
    [][(op' = "get_transactions_by_categories" /\ result'.status = Ok) =>
          LET by == result'.expense_by_category
              txs == result'.transactions
          IN  /\ \A i \in DOMAIN txs : txs[i].category_id # None
              /\ {by[e].key : e \in DOMAIN by} =
                     {args'.category_ids[i] : i \in DOMAIN args'.category_ids}
              /\ \A e, f \in DOMAIN by : e # f => by[e].key # by[f].key
              /\ result'.total_expense =
                     SumOver([e \in DOMAIN by |-> by[e].value], DOMAIN by)
              /\ (/\ op = "get_transactions_by_categories"
                  /\ args.user_id = args'.user_id
                  /\ WithoutRepeats(args.category_ids) = WithoutRepeats(args'.category_ids))
                     => result' = result]_vars

\* C23 witness: a list naming food twice was answered with the keys food and
\* transport, an expense in food and an income among the returned.
C23_Witness ==
    /\ ByCategoriesReturned
    /\ args.category_ids = <<"food", "transport", "food">>
    /\ Len(result.expense_by_category) = 2
    /\ DictGet(result.expense_by_category, "food", 0) > 0
    /\ \E i \in DOMAIN result.transactions : result.transactions[i].type = "income"
    /\ result.total_expense = DictGet(result.expense_by_category, "food", 0)
                                  + DictGet(result.expense_by_category, "transport", 0)

\* C24: in every result of get_transactions_for_period total_expense is the
\* sum of the values of expense_by_category, every value is greater than
\* zero, and total_expense is zero exactly when expense_by_category is empty,
\* which is exactly when the range holds no expense of the user.
C24_PeriodTotals ==
    PeriodReturned =>
        LET by == result.expense_by_category
            expenses == {k \in DOMAIN store :
                            /\ store[k].user_id = args.user_id
                            /\ store[k].type = "expense"
                            /\ store[k].occurred_at.t >= args.start_at.t
                            /\ store[k].occurred_at.t <= args.end_at.t}
        IN  /\ result.total_expense = SumOver([e \in DOMAIN by |-> by[e].value], DOMAIN by)
            /\ \A e \in DOMAIN by : by[e].value > 0
            /\ result.total_expense = 0 <=> by = <<>>
            /\ by = <<>> <=> expenses = {}

\* C24 witness: the range holds two expenses of the user, one of them without
\* category; the two values add up to the total.
C24_Witness ==
    /\ PeriodReturned
    /\ Len(result.expense_by_category) = 2
    /\ DictHas(result.expense_by_category, None)
    /\ DictHas(result.expense_by_category, "food")
    /\ result.total_expense = 2000

====
